---- MODULE Spec2Model ----
(***************************************************************************)
(* Model of the tight-coupling-query materialized view function            *)
(* (cqrs-block/functions/tight-coupling-query/index.js).                   *)
(*                                                                         *)
(* A commit event is turned into the power set of its file names; for      *)
(* every file group the function issues a findOneAndUpdate with            *)
(* upsert:true against the MongoDB collection "query", and the callback    *)
(* of that call (queryHandler) issues a second findOneAndUpdate (the       *)
(* update of the counters) or a find (read back of a created view).        *)
(*                                                                         *)
(* Strings are sequences of one-character strings, so that toLowerCase,    *)
(* sort and join are computed.  The timestamps createdAt and updatedAt are *)
(* not part of the state.                                                  *)
(*                                                                         *)
(* A store operation and the driver callback it ends in are one step: the  *)
(* callback only computes from the answer and sends the next request.      *)
(*                                                                         *)
(* Three specifications share the actions:                                 *)
(*   Spec        commits of one file, any number in flight, requests       *)
(*               answered in any order;                                    *)
(*   SpecFifo    commits of one or two files, requests answered in the     *)
(*               order sent (PoolSize of them open at once);               *)
(*   SpecReplay  commits of two files processed one after another, no      *)
(*               store failure, ReplayWindow requests open at once;        *)
(*   SpecInputs  commits of zero to three files, with paths that differ    *)
(*               in case only or hold the delimiter, processed one after   *)
(*               another, no store failure, requests answered in order;    *)
(*   SpecConn    the handler from module load on: the connection is made   *)
(*               by the first invocation; commits of one file.             *)
(***************************************************************************)
EXTENDS Integers, Sequences, FiniteSets, TLC

VARIABLES
    store,      \* the collection "query": composite key -> document
    events,     \* the invocations of processEvent so far, in order
    ops,        \* the store operations issued so far, in issue order
    wire,       \* the store requests in flight (operation numbers), in the order they were sent
    futures,    \* futures[e][b]: the Sync.Future of the b-th updateViewForSet call of event e
    outcome,    \* outcome[e]: what the Lambda callback of event e was given, or NoOutcome
    failures,   \* number of store operations that have failed so far
    crashed,    \* an exception escaped a driver callback
    mongoUri,   \* the module variable mongoUri: Null until the first invocation
    cachedDb,   \* the module variable cachedDb: Null until a connection succeeds
    connecting, \* the invocations waiting for mongoClient.connect to call back
    connErrors  \* number of invocations answered with the connection error

connVars == <<mongoUri, cachedDb, connecting, connErrors>>

vars == <<store, events, ops, wire, futures, outcome, failures, crashed, connVars>>

----------------------------------------------------------------------------
(* Bounds of the model *)

MaxEvents == 4       \* invocations of processEvent in Spec
MaxPairEvents == 2   \* invocations of processEvent in SpecFifo
MaxFailures == 1     \* store operations that may fail
PoolSize == 1        \* requests the store may have taken off the wire at once in SpecFifo
MaxReplays == 2      \* invocations of processEvent in SpecReplay
MaxInputEvents == 2  \* invocations of processEvent in SpecInputs
MaxConnEvents == 3   \* invocations of the handler in SpecConn
ReplayWindow == 2    \* requests the store may have taken off the wire at once in SpecReplay

----------------------------------------------------------------------------
(* Strings *)

\* UTF-16 code units of the characters used
Code(c) ==
    CASE c = "." -> 46
      [] c = "A" -> 65
      [] c = "B" -> 66
      [] c = "_" -> 95
      [] c = "a" -> 97
      [] c = "b" -> 98
      [] c = "j" -> 106
      [] c = "s" -> 115

\* String.prototype.toLowerCase
LowerChar(c) ==
    CASE c = "A" -> "a"
      [] c = "B" -> "b"
      [] OTHER -> c

toLowerCase(s) == [i \in 1..Len(s) |-> LowerChar(s[i])]

\* s < t in the order Array.prototype.sort uses without a comparator
RECURSIVE StrLess(_, _)
StrLess(s, t) ==
    IF t = <<>> THEN FALSE
    ELSE IF s = <<>> THEN TRUE
    ELSE IF Code(Head(s)) # Code(Head(t)) THEN Code(Head(s)) < Code(Head(t))
    ELSE StrLess(Tail(s), Tail(t))

RECURSIVE Insert(_, _)
Insert(x, sorted) ==
    IF sorted = <<>> THEN <<x>>
    ELSE IF StrLess(x, Head(sorted)) THEN <<x>> \o sorted
    ELSE <<Head(sorted)>> \o Insert(x, Tail(sorted))

\* Array.prototype.sort on an array of strings
RECURSIVE sort(_)
sort(list) ==
    IF list = <<>> THEN <<>>
    ELSE Insert(Head(list), sort(Tail(list)))

\* Array.prototype.join
RECURSIVE join(_, _)
join(list, sep) ==
    IF list = <<>> THEN <<>>
    ELSE IF Len(list) = 1 THEN Head(list)
    ELSE Head(list) \o sep \o join(Tail(list), sep)

\* md5 of a string: a digest that determines the string (no collisions)
md5(s) == <<"md5", s>>

----------------------------------------------------------------------------
(* Configuration: OPTS *)

VIEW_NAME == "tcq"

MATCH_THRESHOLD == 2

Null == [type |-> "null"]

TEMPLATE(projectId, fileIds) ==
    [type |-> "view",
     model |-> [projectId |-> projectId, matches |-> 1, captures |-> 0, fileIds |-> fileIds],
     viewName |-> VIEW_NAME]

----------------------------------------------------------------------------
(* The view state machine *)

updateViewNoReset(tcq) ==
    LET m == tcq.model.matches + 1 IN
    IF m > MATCH_THRESHOLD
    THEN [tcq EXCEPT !.model.matches = 0, !.model.captures = tcq.model.captures + 1]
    ELSE [tcq EXCEPT !.model.matches = m]

updateViewNoCapture(tcq) ==
    LET m == tcq.model.matches + 1 IN
    IF m >= MATCH_THRESHOLD
    THEN [tcq EXCEPT !.model.matches = 0]
    ELSE [tcq EXCEPT !.model.matches = m]

updateView(tcq) ==
    LET m == tcq.model.matches + 1 IN
    IF m >= MATCH_THRESHOLD
    THEN [tcq EXCEPT !.model.matches = 0, !.model.captures = tcq.model.captures + 1]
    ELSE [tcq EXCEPT !.model.matches = m]

----------------------------------------------------------------------------
(* The subset enumerator *)

RECURSIVE Pow2(_)
Pow2(n) == IF n = 0 THEN 1 ELSE 2 * Pow2(n - 1)

\* i & (1 << j), for 0-based j
BitSet(i, j) == (i \div Pow2(j)) % 2 = 1

RECURSIVE Combination(_, _, _)
\* the inner loop of powerSet from 0-based j on
Combination(list, i, j) ==
    IF j >= Len(list) THEN <<>>
    ELSE (IF BitSet(i, j) THEN <<list[j + 1]>> ELSE <<>>) \o Combination(list, i, j + 1)

\* the outer loop started at the empty combination
powerSetFromZero(list) ==
    [i \in 1..Pow2(Len(list)) |-> Combination(list, i - 1, 0)]

powerSet(list) ==
    [i \in 1..(Pow2(Len(list)) - 1) |-> Combination(list, i, 0)]

----------------------------------------------------------------------------
(* processEvent: normalisation, file groups and composite keys *)

\* commit.files.map(item => item.fileName.toLowerCase())
NormalizedFiles(rawFiles) == [i \in 1..Len(rawFiles) |-> toLowerCase(rawFiles[i])]

\* powerSet over the indices, mapped back to the file names
FileGroups(files) ==
    LET idx == powerSet([i \in 1..Len(files) |-> i])
    IN  [n \in 1..Len(idx) |-> [k \in 1..Len(idx[n]) |-> files[idx[n][k]]]]

\* the key of the file group as enumerated, without sort()
CompositeKeyUnsorted(projectId, fileNames) ==
    <<VIEW_NAME, projectId, md5(join(fileNames, <<"_">>))>>

\* [VIEW_NAME, projectId, md5(...)].join("_"): the tag and the digest have a
\* fixed length, so the joined string determines the three parts; it is kept
\* as the triple.  sort() reorders the file group in place, which changes no
\* later key, the key being computed from the sorted group.
CompositeKey(projectId, fileNames) ==
    <<VIEW_NAME, projectId, md5(join(sort(fileNames), <<"_">>))>>

----------------------------------------------------------------------------
(* Values handed to callbacks *)

NoOutcome == [type |-> "none"]

\* the error of the failed store operation number i
Err(i) == [type |-> "error", op |-> i]

IsError(x) == x.type = "error"

----------------------------------------------------------------------------
(* The store: findOneAndUpdate and find on the collection *)

\* $set: the fields named by the update replace those of the document
SetFields(doc, fields) ==
    [f \in (DOMAIN doc) \cup (DOMAIN fields) |->
        IF f \in DOMAIN fields THEN fields[f] ELSE doc[f]]

\* returnOriginal:true: the document as it was before the write, null if there was none
FetchOriginalAlwaysNull(st, key) == Null

FetchOriginal(st, key) == IF key \in DOMAIN st THEN st[key] ELSE Null

\* findOneAndUpdate({_id: key}, {$set: fields}, {upsert: true})
UpsertSet(st, key, fields) ==
    [k \in (DOMAIN st) \cup {key} |->
        IF k = key
        THEN (IF key \in DOMAIN st THEN SetFields(st[key], fields) ELSE fields)
        ELSE st[k]]

\* findOneAndUpdate({_id: key}, {$set: fields}, {upsert: false})
UpdateSet(st, key, fields) ==
    IF key \in DOMAIN st
    THEN [st EXCEPT ![key] = SetFields(@, fields)]
    ELSE st

----------------------------------------------------------------------------
(* Sync.Future: the first call of the ticket resolves it, later calls are  *)
(* ignored.  The fiber of event e is suspended in task.result on the last  *)
(* future it created; resolving that one resumes the fiber, which calls    *)
(* callback(null, task.result).                                            *)

FuturesAfter(e, b, value) ==
    IF futures[e][b].resolved THEN futures
    ELSE [futures EXCEPT ![e][b] = [resolved |-> TRUE, result |-> value]]

OutcomeAfter(e, b, value) ==
    IF ~futures[e][b].resolved /\ b = Len(futures[e])
    THEN [outcome EXCEPT ![e] = value]
    ELSE outcome

Complete(e, b, value) ==
    /\ futures' = FuturesAfter(e, b, value)
    /\ outcome' = OutcomeAfter(e, b, value)

----------------------------------------------------------------------------
(* State *)

Projects == {"p1"}

fa == <<"a", ".", "j", "s">>
fb == <<"b", ".", "j", "s">>
fA == <<"A", ".", "j", "s">>

\* a path that holds the delimiter of the key derivation: "a.js_b.js"
fab == fa \o <<"_">> \o fb

\* file lists of the commits with one file
SingleFiles == {<<fa>>, <<fb>>, <<fA>>}

\* file lists of the commits with two files
PairFiles == {<<fa, fb>>, <<fb, fa>>}

Resolved(op) == op.pc \in {"done", "failed", "threw"}

Quiet == \A i \in 1..Len(ops) : Resolved(ops[i])

EventKeys(projectId, groups) ==
    {CompositeKey(projectId, groups[g]) : g \in 1..Len(groups)}

\* no operation on a key of the new event is still in flight
KeysQuiet(keys) == \A i \in 1..Len(ops) : ops[i].key \in keys => Resolved(ops[i])

\* the wire without the request of operation i, which has been answered
Answered(i) == SelectSeq(wire, LAMBDA j : j # i)

\* the store handle db.collection is called on
Db == [type |-> "db"]

Uri == [type |-> "uri"]

\* the collection is empty and nothing has been invoked
InitStore ==
    /\ store = <<>>
    /\ events = <<>>
    /\ ops = <<>>
    /\ wire = <<>>
    /\ futures = <<>>
    /\ outcome = <<>>
    /\ failures = 0
    /\ crashed = FALSE

\* the state the update engine is specified in: a first invocation has
\* connected and cached the store handle
Init ==
    /\ InitStore
    /\ mongoUri = Uri
    /\ cachedDb = Db
    /\ connecting = <<>>
    /\ connErrors = 0

\* the findOneAndUpdate calls of one processEvent, in issue order: the outer
\* forEach calls updateViewForSet once per file group (batch b), and each call
\* runs over all the file groups (group g)
IssuedOps(e, projectId, groups) ==
    LET M == Len(groups) IN
    [n \in 1..(M * M) |->
        LET b == ((n - 1) \div M) + 1
            g == ((n - 1) % M) + 1
        IN  [event |-> e, batch |-> b, group |-> g,
             key |-> CompositeKey(projectId, groups[g]),
             pc |-> "upsert", r |-> Null, update |-> Null]]

\* processEvent(event, callback, db) up to the suspension in task.result.
\* With db null, db.collection throws before any request is sent.  With no
\* file there is no file group, task stays undefined and task.result throws
\* inside the fiber.  Either exception is reported to nobody by this code; it
\* may or may not end the process.
processEvent(db, projectId, rawFiles) ==
    LET e == Len(events) + 1
        files == NormalizedFiles(rawFiles)
        groups == FileGroups(files)
        sent == IF db = Null THEN <<>> ELSE IssuedOps(e, projectId, groups)
    IN  /\ ~crashed
        /\ events' = Append(events,
                [projectId |-> projectId, files |-> files, groups |-> groups,
                 serial |-> KeysQuiet(EventKeys(projectId, groups)), db |-> db])
        /\ ops' = ops \o sent
        /\ wire' = wire \o [n \in 1..Len(sent) |-> Len(ops) + n]
        /\ futures' = Append(futures,
                IF db = Null THEN <<>>
                ELSE [b \in 1..Len(groups) |-> [resolved |-> FALSE, result |-> Null]])
        /\ outcome' = Append(outcome, NoOutcome)
        /\ IF db = Null \/ groups = <<>>
           THEN crashed' \in BOOLEAN
           ELSE crashed' = crashed
        /\ UNCHANGED <<store, failures>>

\* queryHandler taking the created document for a prior view when r.value is null
UpsertOkAlwaysUpdates(i) ==
    LET op == ops[i]
        ev == events[op.event]
        orig == FetchOriginal(store, op.key)
        st == UpsertSet(store, op.key, TEMPLATE(ev.projectId, ev.files))
    IN  /\ ~crashed
        /\ op.pc = "upsert"
        /\ store' = st
        /\ ops' = [ops EXCEPT ![i] =
                     [@ EXCEPT !.pc = "apply", !.r = orig,
                               !.update = updateView(IF orig # Null THEN orig
                                                     ELSE st[op.key]).model]]
        /\ wire' = Append(Answered(i), i)
        /\ UNCHANGED <<events, futures, outcome, failures, crashed, connVars>>

\* the upsert of operation i runs in the store and queryHandler gets (null, r)
UpsertOk(i) ==
    LET op == ops[i]
        ev == events[op.event]
        orig == FetchOriginal(store, op.key)
    IN  /\ ~crashed
        /\ op.pc = "upsert"
        /\ store' = UpsertSet(store, op.key, TEMPLATE(ev.projectId, ev.files))
        /\ ops' = [ops EXCEPT ![i] =
                     IF orig # Null
                     THEN [@ EXCEPT !.pc = "apply", !.r = orig,
                                    !.update = updateView(orig).model]
                     ELSE [@ EXCEPT !.pc = "find", !.r = Null]]
        /\ wire' = Append(Answered(i), i)
        /\ UNCHANGED <<events, futures, outcome, failures, crashed, connVars>>

\* the upsert of operation i fails: queryHandler gets (err, null), calls
\* callback(null, err) and then throws a TypeError on r.value; the exception
\* escapes the driver callback and ends the process
UpsertFail(i) ==
    LET op == ops[i] IN
    /\ ~crashed
    /\ op.pc = "upsert"
    /\ failures < MaxFailures
    /\ failures' = failures + 1
    /\ Complete(op.event, op.batch, Err(i))
    /\ ops' = [ops EXCEPT ![i].pc = "threw"]
    /\ wire' = Answered(i)
    /\ crashed' = TRUE
    /\ UNCHANGED <<store, events, connVars>>

\* the update of the counters runs in the store; its callback gets the new document
ApplyOk(i) ==
    LET op == ops[i]
        st == UpdateSet(store, op.key, [model |-> op.update])
    IN  /\ ~crashed
        /\ op.pc = "apply"
        /\ store' = st
        /\ Complete(op.event, op.batch, FetchOriginal(st, op.key))
        /\ ops' = [ops EXCEPT ![i].pc = "done"]
        /\ wire' = Answered(i)
        /\ UNCHANGED <<events, failures, crashed, connVars>>

ApplyFail(i) ==
    LET op == ops[i] IN
    /\ ~crashed
    /\ op.pc = "apply"
    /\ failures < MaxFailures
    /\ failures' = failures + 1
    /\ Complete(op.event, op.batch, Err(i))
    /\ ops' = [ops EXCEPT ![i].pc = "failed"]
    /\ wire' = Answered(i)
    /\ UNCHANGED <<store, events, crashed, connVars>>

\* the read back of a created view: find({_id: key}).limit(1).next(...)
FindOk(i) ==
    LET op == ops[i] IN
    /\ ~crashed
    /\ op.pc = "find"
    /\ Complete(op.event, op.batch, FetchOriginal(store, op.key))
    /\ ops' = [ops EXCEPT ![i].pc = "done"]
    /\ wire' = Answered(i)
    /\ UNCHANGED <<store, events, failures, crashed, connVars>>

FindFail(i) ==
    LET op == ops[i] IN
    /\ ~crashed
    /\ op.pc = "find"
    /\ failures < MaxFailures
    /\ failures' = failures + 1
    /\ Complete(op.event, op.batch, Err(i))
    /\ ops' = [ops EXCEPT ![i].pc = "failed"]
    /\ wire' = Answered(i)
    /\ UNCHANGED <<store, events, crashed, connVars>>

\* Commits of one file; the store answers the requests in flight in any order
\* (the connections of the pool are served independently).
Invoke ==
    /\ Len(events) < MaxEvents
    /\ \E p \in Projects, raw \in SingleFiles : processEvent(cachedDb, p, raw)
    /\ UNCHANGED connVars

Next ==
    \/ Invoke
    \/ \E i \in 1..Len(ops) : UpsertOk(i)
    \/ \E i \in 1..Len(ops) : UpsertFail(i)
    \/ \E i \in 1..Len(ops) : ApplyOk(i)
    \/ \E i \in 1..Len(ops) : ApplyFail(i)
    \/ \E i \in 1..Len(ops) : FindOk(i)
    \/ \E i \in 1..Len(ops) : FindFail(i)

Spec == Init /\ [][Next]_vars

\* Commits of one or two files; the store answers the requests in the order
\* they were sent, at most PoolSize of them being open at once.
InvokeAny ==
    /\ Len(events) < MaxPairEvents
    /\ \E p \in Projects, raw \in SingleFiles \cup PairFiles : processEvent(cachedDb, p, raw)
    /\ UNCHANGED connVars

Min(a, b) == IF a < b THEN a ELSE b

\* the operations whose request the store may answer next in SpecFifo
Open == {wire[n] : n \in 1..Min(PoolSize, Len(wire))}

NextFifo ==
    \/ InvokeAny
    \/ \E i \in Open : UpsertOk(i)
    \/ \E i \in Open : UpsertFail(i)
    \/ \E i \in Open : ApplyOk(i)
    \/ \E i \in Open : ApplyFail(i)
    \/ \E i \in Open : FindOk(i)
    \/ \E i \in Open : FindFail(i)

SpecFifo == Init /\ [][NextFifo]_vars

\* Commits of two files, each invoked after the operations of the one before
\* have all been answered; no store operation fails; the store answers one of
\* the first ReplayWindow requests on the wire.
InvokeReplay ==
    /\ Len(events) < MaxReplays
    /\ Quiet
    /\ \E p \in Projects, raw \in PairFiles : processEvent(cachedDb, p, raw)
    /\ UNCHANGED connVars

OpenReplay == {wire[n] : n \in 1..Min(ReplayWindow, Len(wire))}

NextReplay ==
    \/ InvokeReplay
    \/ \E i \in OpenReplay : UpsertOk(i)
    \/ \E i \in OpenReplay : ApplyOk(i)
    \/ \E i \in OpenReplay : FindOk(i)

SpecReplay == Init /\ [][NextReplay]_vars

\* file lists of the commits of SpecInputs: no file, one file, the same two
\* files in both orders, two paths that differ in case only, a path that
\* holds the delimiter, three files
InputFiles ==
    {<<>>, <<fa>>, <<fab>>, <<fa, fb>>, <<fb, fa>>, <<fA, fa>>, <<fa, fb, fab>>}

\* Commits of InputFiles, each invoked after the operations of the one before
\* have all been answered; no store operation fails; the store answers the
\* requests in the order they were sent.
InvokeInput ==
    /\ Len(events) < MaxInputEvents
    /\ Quiet
    /\ \E p \in Projects, raw \in InputFiles : processEvent(cachedDb, p, raw)
    /\ UNCHANGED connVars

First == IF wire = <<>> THEN {} ELSE {Head(wire)}

NextInputs ==
    \/ InvokeInput
    \/ \E i \in First : UpsertOk(i)
    \/ \E i \in First : ApplyOk(i)
    \/ \E i \in First : FindOk(i)

SpecInputs == Init /\ [][NextInputs]_vars

\* the module as loaded: no connection has been asked for
InitLoaded ==
    /\ InitStore
    /\ mongoUri = Null
    /\ cachedDb = Null
    /\ connecting = <<>>
    /\ connErrors = 0

\* invocations of exports.handler so far
Invocations == Len(events) + Len(connecting) + connErrors

\* exports.handler, initializeDataSource with mongoUri == null: the uri is
\* stored at once and the connection is asked for; processEvent waits for it
HandlerConnect ==
    /\ ~crashed
    /\ Invocations < MaxConnEvents
    /\ mongoUri = Null
    /\ mongoUri' = Uri
    /\ \E p \in Projects, raw \in SingleFiles :
          connecting' = Append(connecting, [projectId |-> p, files |-> raw])
    /\ UNCHANGED <<store, events, ops, wire, futures, outcome, failures, crashed,
                   cachedDb, connErrors>>

\* exports.handler, initializeDataSource with mongoUri set: callback(cachedDb),
\* err is undefined and processEvent gets cachedDb, whatever it holds
HandlerCached ==
    /\ Invocations < MaxConnEvents
    /\ mongoUri # Null
    /\ \E p \in Projects, raw \in SingleFiles : processEvent(cachedDb, p, raw)
    /\ UNCHANGED connVars

\* mongoClient.connect calls back with a db: it is cached and processEvent runs
ConnectOk ==
    /\ connecting # <<>>
    /\ cachedDb' = Db
    /\ connecting' = Tail(connecting)
    /\ processEvent(Db, Head(connecting).projectId, Head(connecting).files)
    /\ UNCHANGED <<mongoUri, connErrors>>

\* mongoClient.connect calls back with an error: callback(null, err) hands it
\* to the caller of the invocation; mongoUri stays set and cachedDb null
ConnectFail ==
    /\ ~crashed
    /\ connecting # <<>>
    /\ connecting' = Tail(connecting)
    /\ connErrors' = connErrors + 1
    /\ UNCHANGED <<store, events, ops, wire, futures, outcome, failures, crashed,
                   mongoUri, cachedDb>>

NextConn ==
    \/ HandlerConnect
    \/ HandlerCached
    \/ ConnectOk
    \/ ConnectFail
    \/ \E i \in 1..Len(ops) : UpsertOk(i)
    \/ \E i \in 1..Len(ops) : UpsertFail(i)
    \/ \E i \in 1..Len(ops) : ApplyOk(i)
    \/ \E i \in 1..Len(ops) : ApplyFail(i)
    \/ \E i \in 1..Len(ops) : FindOk(i)
    \/ \E i \in 1..Len(ops) : FindFail(i)

SpecConn == InitLoaded /\ [][NextConn]_vars

----------------------------------------------------------------------------
(* Properties *)

OpIds == 1..Len(ops)

OpsOn(k) == {i \in OpIds : ops[i].key = k}

OpsOf(e) == {i \in OpIds : ops[i].event = e}

\* the upsert of the operation has been answered with a result
Fetched(op) == op.pc \in {"apply", "find", "done", "failed"}

Failed(op) == op.pc \in {"failed", "threw"}

Counters(view) == <<view.model.matches, view.model.captures>>

AllKeys == (DOMAIN store) \cup {ops[i].key : i \in OpIds}

\* C1: an upsert on a key whose view exists returns the view as it was and
\* leaves the persisted view as it was.
C1_UpsertLeavesViewUnchanged ==
    [][\A i \in OpIds :
          (ops[i].pc = "upsert" /\ Fetched(ops'[i]) /\ ops[i].key \in DOMAIN store)
          => /\ ops'[i].r = store[ops[i].key]
             /\ store'[ops[i].key] = store[ops[i].key]]_vars

\* the counters after n observations of a key applied one after another
RECURSIVE SerialView(_)
SerialView(n) ==
    IF n <= 1 THEN TEMPLATE("p1", <<>>) ELSE updateView(SerialView(n - 1))

\* C2: once all the observations of a key have been applied, the persisted
\* counters are those of the same observations applied one after another.
C2_ObservationsSerialized ==
    \A k \in DOMAIN store :
        (\A i \in OpsOn(k) : ops[i].pc = "done")
        => Counters(store[k]) = Counters(SerialView(Cardinality(OpsOn(k))))

\* C3: the outcome of an event is reported only when every store operation
\* issued for the event has been answered.
C3_OutcomeAfterAllResolved ==
    \A e \in 1..Len(events) :
        outcome[e] # NoOutcome => \A i \in OpsOf(e) : Resolved(ops[i])

\* C4: when all the operations of an event have been answered and one of them
\* failed, the outcome reported for the event is the error of a failed one.
C4_FailureReported ==
    \A e \in 1..Len(events) :
        ((\A i \in OpsOf(e) : Resolved(ops[i])) /\ (\E i \in OpsOf(e) : Failed(ops[i])))
        => \E i \in OpsOf(e) : Failed(ops[i]) /\ outcome[e] = Err(i)

\* C5: every persisted view has 0 <= matches < MATCH_THRESHOLD.
C5_MatchesBelowThreshold ==
    \A k \in DOMAIN store :
        /\ store[k].model.matches >= 0
        /\ store[k].model.matches < MATCH_THRESHOLD

\* a view whose counter reached the threshold and was reset in the same update
C5_Witness ==
    \E k \in DOMAIN store :
        /\ store[k].model.matches = 0
        /\ store[k].model.captures >= 1

IsDistinct(list) == \A i, j \in 1..Len(list) : list[i] = list[j] => i = j

\* C6: an event with N distinct files issues one upsert for each of its
\* 2^N - 1 file groups, and no more.
C6_OneUpsertPerFileGroup ==
    \A e \in 1..Len(events) :
        IsDistinct(events[e].files)
        => /\ Cardinality(OpsOf(e)) = Pow2(Len(events[e].files)) - 1
           /\ \A g \in 1..Len(events[e].groups) :
                 Cardinality({i \in OpsOf(e) : ops[i].group = g}) = 1

AllDone == \A i \in OpIds : ops[i].pc = "done"

\* C7: after the commit of a.js and b.js has been processed once from the
\* empty store, there are three views, each with matches = 1, captures = 0.
C7_FirstEventCreatesThreeViews ==
    (Len(events) = 1 /\ events[1].files = <<fa, fb>> /\ AllDone)
    => /\ Cardinality(DOMAIN store) = 3
       /\ \A k \in DOMAIN store : Counters(store[k]) = <<1, 0>>

\* C8: after the same commit has been processed a second time, the first
\* processing being complete before, the three views have matches = 0,
\* captures = 1.
C8_SecondEventCaptures ==
    (/\ Len(events) = 2
     /\ events[1].files = <<fa, fb>>
     /\ events[2].files = <<fa, fb>>
     /\ events[2].serial
     /\ AllDone)
    => /\ Cardinality(DOMAIN store) = 3
       /\ \A k \in DOMAIN store : Counters(store[k]) = <<0, 1>>

\* key k has been observed n times, each observation by a commit of its own
\* that was invoked after the observations before were complete, and all are
\* complete
ObservedSerially(k, n) ==
    /\ Cardinality(OpsOn(k)) = n
    /\ \A i \in OpsOn(k) :
          /\ ops[i].pc = "done"
          /\ events[ops[i].event].serial
          /\ Cardinality(OpsOf(ops[i].event)) = 1

\* C9 as claimed: three observations one after another end with matches = 0,
\* captures = 1.
C9_ThreeObservationsAsClaimed ==
    \A k \in DOMAIN store : ObservedSerially(k, 3) => Counters(store[k]) = <<0, 1>>

\* C9 amended: three observations one after another end with matches = 1,
\* captures = 1.
C9_ThreeObservations ==
    \A k \in DOMAIN store : ObservedSerially(k, 3) => Counters(store[k]) = <<1, 1>>

C9_Witness ==
    \E k \in DOMAIN store : ObservedSerially(k, 3)

\* C10: of the upserts answered for a key, exactly one found no view and got
\* null; all the others got a view.
C10_OneCreationPerKey ==
    \A k \in AllKeys :
        LET fetched == {i \in OpsOn(k) : Fetched(ops[i])}
            created == {i \in fetched : ops[i].r = Null}
        IN  /\ fetched # {} => Cardinality(created) = 1
            /\ fetched = {} => k \notin DOMAIN store
            /\ \A i \in fetched \ created : ops[i].r.type = "view"

\* two first touches of a key in flight at once: one created the view and is
\* reading it back, another fetched the prior view
C10_Witness ==
    \E i, j \in OpIds :
        /\ ops[i].key = ops[j].key
        /\ ops[i].pc = "find"
        /\ ops[j].pc = "apply"

\* C11: a commit without files is answered with a failure outcome, and no
\* store operation is issued for it.
C11_EmptyCommitRejected ==
    \A e \in 1..Len(events) :
        events[e].files = <<>> => (IsError(outcome[e]) /\ OpsOf(e) = {})

\* the half of C11 that holds: no store operation is issued for a commit
\* without files, and the step that processes it leaves the store as it was
C11_NoStoreWrite ==
    [][\A e \in 1..Len(events') :
          (e > Len(events) /\ events'[e].files = <<>>)
          => (store' = store /\ ops' = ops /\ wire' = wire)]_vars

Range(list) == {list[n] : n \in 1..Len(list)}

\* the operations that created the view of key k
Creators(k) == {i \in OpsOn(k) : Fetched(ops[i]) /\ ops[i].r = Null}

\* C12: the fileIds of a persisted view are the file list of the commit that
\* created the view.
C12_FileIdsOfCreator ==
    \A k \in DOMAIN store :
        \A i \in Creators(k) : store[k].model.fileIds = events[ops[i].event].files

\* C13: for a commit of N >= 1 distinct files the enumerator yields 2^N - 1
\* file groups, none empty, no two with the same files, and together they hold
\* exactly the files of the commit.
C13_PowerSet ==
    \A e \in 1..Len(events) :
        LET files == events[e].files
            groups == events[e].groups
        IN  (Len(files) >= 1 /\ IsDistinct(files))
            => /\ Len(groups) = Pow2(Len(files)) - 1
               /\ \A g \in 1..Len(groups) : groups[g] # <<>> /\ IsDistinct(groups[g])
               /\ \A g, h \in 1..Len(groups) :
                     Range(groups[g]) = Range(groups[h]) => g = h
               /\ UNION {Range(groups[g]) : g \in 1..Len(groups)} = Range(files)

\* a commit of three distinct files has been enumerated
C13_Witness ==
    \E e \in 1..Len(events) :
        /\ Len(events[e].files) = 3
        /\ IsDistinct(events[e].files)
        /\ Len(events[e].groups) = 7

\* the file group of an operation, as enumerated
GroupOf(op) == events[op.event].groups[op.group]

ProjectOf(op) == events[op.event].projectId

\* the operations of the first updateViewForSet call of each event: one for
\* each file group enumerated
FirstBatch == {i \in OpIds : ops[i].batch = 1}

C18_KeyIdentifiesFiles ==
    \A i \in FirstBatch, j \in OpIds :
        (/\ ProjectOf(ops[i]) = ProjectOf(ops[j])
         /\ Range(GroupOf(ops[i])) # Range(GroupOf(ops[j])))
        => ops[i].key # ops[j].key

\* C15: after n >= 1 observations of a key one after another the persisted
\* view accounts for each of them: captures * MATCH_THRESHOLD + matches = n.
C15_EveryObservationCounted ==
    \A k \in DOMAIN store :
        \A n \in 1..Len(ops) :
            ObservedSerially(k, n)
            => store[k].model.captures * MATCH_THRESHOLD + store[k].model.matches = n

\* a key observed four times one after another
C15_Witness ==
    \E k \in DOMAIN store : ObservedSerially(k, 4)

\* C16: an operation whose upsert returned null goes on to the read back of
\* the created view: it computes no update, and the step that ends it writes
\* nothing to the store.
C16_NoUpdateAfterCreation ==
    [][\A i \in OpIds :
          (Fetched(ops'[i]) /\ ops'[i].r = Null)
          => /\ ops'[i].update = Null
             /\ ops'[i].pc \in {"find", "done", "failed"}
             /\ (ops[i].pc = "find" /\ ops'[i].pc # "find") => store' = store]_vars

\* the read back of a created view has been answered
C16_Witness ==
    \E i \in OpIds : ops[i].pc = "done" /\ ops[i].r = Null

\* C17: no step lowers the captures of a persisted view.
C17_CapturesNeverDecrease ==
    [][\A k \in DOMAIN store :
          store'[k].model.captures >= store[k].model.captures]_vars

\* C19: processEvent is only ever called with an established store handle.
C19_ProcessEventHasHandle ==
    \A e \in 1..Len(events) : events[e].db # Null

====
